---- MODULE Spec2Model ----
(***************************************************************************)
(* A model of gcsa.event.Event (src/gcsa/event.py): construction, the      *)
(* add_* mutators, __eq__ and __lt__, over a heap of Python list objects,  *)
(* so that a list shared by reference is shared in the model as well.      *)
(* The serializer base class (serializers/base_serializer.py) is modelled  *)
(* from its test, src/tests/test_base_serializer.py.                       *)
(***************************************************************************)
EXTENDS Integers, Sequences, FiniteSets, TLC

VARIABLES
    heap,         \* the list objects: heap[id] is the content of list object id
    callerLists,  \* the list objects the caller built: id -> type of the elements
    events,       \* the Event objects of the caller: variable -> fields (lists by id)
    last,         \* the last call: its operation, arguments and outcome
    nAdds,        \* how many add_* calls were made (bounds the exploration)
    classes       \* the serializer subclasses defined so far

vars == <<heap, callerLists, events, last, nAdds, classes>>

(***************************************************************************)
(* Bounds of the model.                                                    *)
(***************************************************************************)
MaxAdds == 2
MaxDay == 1
MaxNonDefault == 1

(***************************************************************************)
(* Python values.  Every value is a record tagged with its type.           *)
(***************************************************************************)
None == [kind |-> "None"]
Str(s) == [kind |-> "str", s |-> s]
PyInt(n) == [kind |-> "int", n |-> n]
Date(d) == [kind |-> "date", day |-> d]
BeautifulDate(d) == [kind |-> "BeautifulDate", day |-> d]
Datetime(w, z) == [kind |-> "datetime", wall |-> w, tz |-> z]
ListRef(i) == [kind |-> "list", id |-> i]

\* timedelta(days=1) in hours: a datetime's wall clock is counted in hours
HoursPerDay == 24

\* isinstance(x, datetime)
IsDatetime(x) == x.kind = "datetime"

\* isinstance(x, date): datetime and BeautifulDate are subclasses of date
IsDate(x) == x.kind \in {"date", "BeautifulDate", "datetime"}

\* x + timedelta(hours=n): wall-clock arithmetic, tzinfo kept
AddHours(x, n) == [x EXCEPT !.wall = @ + n]

\* x + timedelta(days=n)
AddDays(x, n) == [x EXCEPT !.day = @ + n]

(***************************************************************************)
(* Time zones: fixed offsets from UTC, in hours.                           *)
(***************************************************************************)
Zones == {"UTC", "Europe/Zurich"}

UTCOffset(z) == IF z = "Europe/Zurich" THEN 1 ELSE 0

\* the UTC instant of a zone-aware datetime
Utc(x) == x.wall - UTCOffset(x.tz)

\* gcsa.util.date_time_util.insure_localisation: a naive datetime gets the
\* zone attached, an aware one is left as it is, a date is left as it is
insure_localisation(dt, timezone) ==
    IF IsDatetime(dt)
    THEN (IF dt.tz = "naive" THEN [dt EXCEPT !.tz = timezone] ELSE dt)
    ELSE dt

\* Event.__init__.insure_date
insure_date(d) == IF d.kind = "BeautifulDate" THEN Date(d.day) ELSE d

(***************************************************************************)
(* Python's == and < on dates and datetimes.                               *)
(***************************************************************************)
PyEq(a, b) ==
    IF IsDatetime(a) /\ IsDatetime(b)
    THEN (IF a.tz = "naive" /\ b.tz = "naive" THEN a.wall = b.wall
          ELSE IF a.tz = "naive" \/ b.tz = "naive" THEN FALSE
          ELSE Utc(a) = Utc(b))
    ELSE IF IsDatetime(a) \/ IsDatetime(b) THEN FALSE
    ELSE IF IsDate(a) /\ IsDate(b) THEN a.day = b.day
    ELSE a = b

\* "True", "False", or "TypeError" where Python refuses to order the two
PyLt(a, b) ==
    IF IsDatetime(a) /\ IsDatetime(b)
    THEN (IF a.tz = "naive" /\ b.tz = "naive"
          THEN (IF a.wall < b.wall THEN "True" ELSE "False")
          ELSE IF a.tz = "naive" \/ b.tz = "naive" THEN "TypeError"
          ELSE IF Utc(a) < Utc(b) THEN "True" ELSE "False")
    ELSE IF IsDatetime(a) \/ IsDatetime(b) THEN "TypeError"
    ELSE IF IsDate(a) /\ IsDate(b)
    THEN (IF a.day < b.day THEN "True" ELSE "False")
    ELSE "TypeError"

\* (x1, x2) < (y1, y2): the first position where the items differ decides
TupleLt(x, y) ==
    IF ~PyEq(x[1], y[1]) THEN PyLt(x[1], y[1])
    ELSE IF ~PyEq(x[2], y[2]) THEN PyLt(x[2], y[2])
    ELSE "False"

(***************************************************************************)
(* Reminders, attendees, attachments (gcsa.reminders, gcsa.attendee,       *)
(* gcsa.attachment).                                                       *)
(***************************************************************************)
PopupReminder(m) == [kind |-> "PopupReminder", minutes_before_start |-> m]
EmailReminder(m) == [kind |-> "EmailReminder", minutes_before_start |-> m]

Attendee(email) ==
    [kind |-> "Attendee", email |-> email, display_name |-> "None",
     response_status |-> "None", optional |-> FALSE,
     is_organizer |-> FALSE, is_self |-> FALSE]

Attachment(title, file_url, mime_type) ==
    [kind |-> "Attachment", title |-> title, file_url |-> file_url,
     mime_type |-> mime_type]

(***************************************************************************)
(* Event.__init__                                                          *)
(***************************************************************************)
\* a new list object named id holding xs: its id and the heap with it
Alloc(h, id, xs) == [ref |-> id, heap |-> h @@ (id :> xs)]

\* Event.__init__.assure_list: a list is returned as it is (the same object);
\* id names the list object created otherwise
assure_list(obj, h, id) ==
    IF obj = None THEN Alloc(h, id, <<>>)
    ELSE IF obj.kind = "list" THEN [ref |-> obj.id, heap |-> h]
    ELSE Alloc(h, id, <<obj>>)

\* if end: ... (a date or a datetime is always true, None is false)
Truthy(x) == x # None

\* the default end with the date test first: a datetime is a date as well
DefaultEnd_DateFirst(start, end) ==
    IF Truthy(end) THEN end
    ELSE IF IsDatetime(start) THEN AddHours(start, HoursPerDay)
    ELSE AddDays(start, 1)

\* lines 102-107: the end of the event before localisation
DefaultEnd(start, end) ==
    IF Truthy(end) THEN end
    ELSE IF IsDatetime(start) THEN AddHours(start, 1)
    ELSE AddDays(start, 1)

\* the mismatch seen in one direction only
KindsMismatch_OneWay(start, end) == IsDatetime(start) /\ ~IsDatetime(end)

\* line 112: exactly one of the two is a datetime
KindsMismatch(start, end) ==
    ~(IsDatetime(start) /\ IsDatetime(end))
    /\ (IsDatetime(start) \/ IsDatetime(end))

\* line 129
TooManyReminders(n) == n > 5

\* line 132
BothDefaultAndOverrides(default_reminders, n) == default_reminders /\ n > 0

\* an off-by-one limit: the check of the constructor used before an append
ReminderLimitReached_LikeInit(n) == n > 5

\* line 177
ReminderLimitReached(n) == n > 4

\* an attendee left as it was given
_ensure_attendee_from_email_Raw(attendee_or_email) == attendee_or_email

\* Event._ensure_attendee_from_email
_ensure_attendee_from_email(attendee_or_email) ==
    IF attendee_or_email.kind = "str"
    THEN Attendee(attendee_or_email.s)
    ELSE attendee_or_email

\* add_reminder that skips a reminder the event already holds
add_reminder_Dedup(ref, reminder, h) ==
    IF ReminderLimitReached(Len(h[ref]))
    THEN [exc |-> "ValueError", heap |-> h]
    ELSE IF \E k \in 1..Len(h[ref]) : h[ref][k] = reminder
    THEN [exc |-> "None", heap |-> h]
    ELSE [exc |-> "None", heap |-> [h EXCEPT ![ref] = Append(@, reminder)]]

\* Event.add_reminder on the list object ref: the exception and the heap
add_reminder(ref, reminder, h) ==
    IF ReminderLimitReached(Len(h[ref]))
    THEN [exc |-> "ValueError", heap |-> h]
    ELSE [exc |-> "None", heap |-> [h EXCEPT ![ref] = Append(@, reminder)]]

\* Event.add_popup_reminder
add_popup_reminder(ref, minutes_before_start, h) ==
    add_reminder(ref, PopupReminder(minutes_before_start), h)

\* Event.add_email_reminder
add_email_reminder(ref, minutes_before_start, h) ==
    add_reminder(ref, EmailReminder(minutes_before_start), h)

\* the list a comprehension builds from the elements of a list
MapAttendees(xs) == [i \in 1..Len(xs) |-> _ensure_attendee_from_email(xs[i])]

\* h without the list objects that are not in keep
Restrict(h, keep) == [id \in DOMAIN h \cap keep |-> h[id]]

\* The outcome of self = Event(**args) on heap h: the exception raised ("None"
\* when the constructor returns), the fields of the new event, and the heap.
\* When the constructor raises, the lists it allocated are garbage and dropped,
\* and the lists that existed before keep what was appended to them.
Event__init__(self, args, h) ==
    LET end0 == DefaultEnd(args.start, args.end)
        both == IsDatetime(args.start) /\ IsDatetime(end0)
        start1 == IF both THEN insure_localisation(args.start, args.timezone)
                  ELSE args.start
        end1 == IF both THEN insure_localisation(end0, args.timezone) ELSE end0
        al == assure_list(args.attendees, h, <<self, "tmp">>)
        att == Alloc(h, <<self, "attendees">>, MapAttendees(al.heap[al.ref]))
        rem == assure_list(args.reminders, att.heap, <<self, "reminders">>)
        nrem == Len(rem.heap[rem.ref])
        rec == assure_list(args.recurrence, rem.heap, <<self, "recurrence">>)
        atc == assure_list(args.attachments, rec.heap, <<self, "attachments">>)
        ev == [start |-> insure_date(start1),
               end |-> insure_date(end1),
               timezone |-> args.timezone,
               updated |-> args.updated,
               event_id |-> args.event_id,
               summary |-> args.summary,
               description |-> args.description,
               location |-> args.location,
               recurrence |-> rec.ref,
               color_id |-> args.color,
               visibility |-> args.visibility,
               attendees |-> att.ref,
               attachments |-> atc.ref,
               conference_solution |-> args.conference_solution,
               reminders |-> rem.ref,
               default_reminders |-> args.default_reminders,
               other |-> args.other]
        pop == IF args.minutes_before_popup_reminder # None
               THEN add_popup_reminder(rem.ref, args.minutes_before_popup_reminder.n,
                                       atc.heap)
               ELSE [exc |-> "None", heap |-> atc.heap]
        eml == IF pop.exc = "None" /\ args.minutes_before_email_reminder # None
               THEN add_email_reminder(rem.ref, args.minutes_before_email_reminder.n,
                                       pop.heap)
               ELSE pop
        Raise(e, hh) == [exc |-> e, ev |-> None, heap |-> Restrict(hh, DOMAIN h)]
    IN  IF ~both /\ KindsMismatch(args.start, end0) THEN Raise("TypeError", h)
        ELSE IF TooManyReminders(nrem) THEN Raise("ValueError", h)
        ELSE IF BothDefaultAndOverrides(args.default_reminders, nrem)
        THEN Raise("ValueError", h)
        ELSE IF eml.exc # "None" THEN Raise(eml.exc, eml.heap)
        ELSE [exc |-> "None", ev |-> ev, heap |-> eml.heap]

\* Event.add_attachment on the list object ref
add_attachment(ref, file_url, title, mime_type, h) ==
    [h EXCEPT ![ref] = Append(@, Attachment(title, file_url, mime_type))]

(***************************************************************************)
(* The arguments of a call of Event(...).                                  *)
(***************************************************************************)
DefaultArgs ==
    [summary |-> Str("Meeting"), start |-> Date(0), end |-> None,
     timezone |-> "UTC", event_id |-> None, description |-> None,
     location |-> None, recurrence |-> None, color |-> None,
     visibility |-> Str("default"), attendees |-> None, attachments |-> None,
     conference_solution |-> None, reminders |-> None,
     default_reminders |-> FALSE, minutes_before_popup_reminder |-> None,
     minutes_before_email_reminder |-> None, updated |-> None, other |-> {}]

\* the reminders the caller uses
Reminders == {PopupReminder(10), EmailReminder(10)}

\* popup, email, popup, ... : the first n of them
ReminderPattern(n) ==
    [i \in 1..n |-> IF i % 2 = 1 THEN PopupReminder(10) ELSE EmailReminder(10)]

TheAttachment == Attachment("notes", "https://drive/notes", "text/plain")

\* the lists the caller builds: of reminders (6 is one too many), of attachments
CallerListContents ==
    [reminders |-> {ReminderPattern(n) : n \in {0, 4, 5, 6}},
     attachments |-> {<<>>, <<TheAttachment>>}]

\* the caller's variable that holds a list, and the variables that hold events
CallerList == <<"caller", "L">>
EventVars == <<"a", "b">>

\* the caller's lists of one element type: the caller passes a list of reminders
\* as reminders and a list of attachments as attachments
CallerRefs(type) ==
    {ListRef(id) : id \in {j \in DOMAIN callerLists : callerLists[j] = type}}

\* the calls of Event(...) that differ in the reminder and attachment arguments
ReminderArgs ==
    {[DefaultArgs EXCEPT !.reminders = r, !.default_reminders = d,
                         !.minutes_before_popup_reminder = p,
                         !.minutes_before_email_reminder = e,
                         !.attachments = a] :
        r \in {None, PopupReminder(10)} \cup CallerRefs("reminders"),
        d \in BOOLEAN,
        p \in {None, PyInt(10)},
        e \in {None, PyInt(10)},
        a \in {None} \cup CallerRefs("attachments")}

(***************************************************************************)
(* The state machine: the caller builds a list, constructs events from it  *)
(* and calls the add_* methods.                                            *)
(***************************************************************************)
Init ==
    /\ heap = <<>>
    /\ callerLists = <<>>
    /\ events = <<>>
    /\ last = [op |-> "start"]
    /\ nAdds = 0
    /\ classes = {}

\* the caller evaluates a list display: L = [...]
CallerMakeList(type, xs) ==
    /\ CallerList \notin DOMAIN heap
    /\ heap' = heap @@ (CallerList :> xs)
    /\ callerLists' = callerLists @@ (CallerList :> type)
    /\ last' = [op |-> "list", ref |-> CallerList]
    /\ UNCHANGED <<events, nAdds, classes>>

\* v = Event(**args), for the next event variable v of the caller
Construct(args) ==
    /\ Len(events) < Len(EventVars)
    /\ LET self == EventVars[Len(events) + 1]
           r == Event__init__(self, args, heap)
       IN  /\ heap' = r.heap
           /\ events' = IF r.exc = "None" THEN Append(events, r.ev) ELSE events
           /\ last' = [op |-> "Event", args |-> args, exc |-> r.exc,
                       ev |-> IF r.exc = "None" THEN Len(events) + 1 ELSE 0]
    /\ UNCHANGED <<callerLists, nAdds, classes>>

\* events[i].add_reminder(reminder)
AddReminder(i, reminder) ==
    /\ nAdds < MaxAdds
    /\ LET r == add_reminder(events[i].reminders, reminder, heap)
       IN  /\ heap' = r.heap
           /\ last' = [op |-> "add_reminder", ev |-> i, arg |-> reminder,
                       exc |-> r.exc]
    /\ nAdds' = nAdds + 1
    /\ UNCHANGED <<callerLists, events, classes>>

\* events[i].add_popup_reminder(minutes)
AddPopupReminder(i, minutes) ==
    /\ nAdds < MaxAdds
    /\ LET r == add_popup_reminder(events[i].reminders, minutes, heap)
       IN  /\ heap' = r.heap
           /\ last' = [op |-> "add_popup_reminder", ev |-> i,
                       arg |-> PyInt(minutes), exc |-> r.exc]
    /\ nAdds' = nAdds + 1
    /\ UNCHANGED <<callerLists, events, classes>>

\* events[i].add_email_reminder(minutes)
AddEmailReminder(i, minutes) ==
    /\ nAdds < MaxAdds
    /\ LET r == add_email_reminder(events[i].reminders, minutes, heap)
       IN  /\ heap' = r.heap
           /\ last' = [op |-> "add_email_reminder", ev |-> i,
                       arg |-> PyInt(minutes), exc |-> r.exc]
    /\ nAdds' = nAdds + 1
    /\ UNCHANGED <<callerLists, events, classes>>

\* events[i].add_attachment(file_url, title, mime_type)
AddAttachment(i, a) ==
    /\ nAdds < MaxAdds
    /\ heap' = add_attachment(events[i].attachments, a.file_url, a.title,
                              a.mime_type, heap)
    /\ last' = [op |-> "add_attachment", ev |-> i, arg |-> a, exc |-> "None"]
    /\ nAdds' = nAdds + 1
    /\ UNCHANGED <<callerLists, events, classes>>

Next ==
    \/ \E type \in {"reminders", "attachments"} :
           \E xs \in CallerListContents[type] : CallerMakeList(type, xs)
    \/ \E args \in ReminderArgs : Construct(args)
    \/ \E i \in 1..Len(events) : \E r \in Reminders : AddReminder(i, r)
    \/ \E i \in 1..Len(events) : AddPopupReminder(i, 10)
    \/ \E i \in 1..Len(events) : AddEmailReminder(i, 10)
    \/ \E i \in 1..Len(events) : AddAttachment(i, TheAttachment)

Spec == Init /\ [][Next]_vars

(***************************************************************************)
(* Properties of the reminders and of the sharing of lists, under Spec.    *)
(***************************************************************************)
\* the override reminders of event i
RemindersOf(i) == heap[events[i].reminders]

ReminderCalls == {"add_reminder", "add_popup_reminder", "add_email_reminder"}

\* C1: every constructed event holds at most 5 override reminders, whatever
\* reminders and shortcuts it was constructed with and whatever add_reminder,
\* add_popup_reminder and add_email_reminder calls followed.
C1_AtMostFiveReminders ==
    \A i \in 1..Len(events) : Len(RemindersOf(i)) <= 5

\* C1 witness: an event holds 5 reminders and a further add was just refused
C1_Witness ==
    /\ last.op \in ReminderCalls
    /\ last.exc = "ValueError"
    /\ Len(RemindersOf(last.ev)) = 5

\* the reminders argument holds at least one reminder (h: the heap at the call)
NonEmptyReminders(arg, h) ==
    arg # None /\ (arg.kind = "list" => Len(h[arg.id]) > 0)

\* C2: constructing with default_reminders=True and a non-empty reminders list
\* fails, and no event ever has default_reminders True together with a
\* non-empty list of override reminders.
C2_DefaultExcludesOverrides ==
    [][/\ (last'.op = "Event" /\ last'.args.default_reminders
               /\ NonEmptyReminders(last'.args.reminders, heap))
           => last'.exc = "ValueError"
       /\ \A i \in 1..Len(events') :
              ~(events'[i].default_reminders
                    /\ Len(heap'[events'[i].reminders]) > 0)]_vars

\* C5: add_reminder on an event holding n reminders succeeds iff n <= 4; then
\* the reminder is the new last element, the size is n + 1 and the earlier
\* reminders are unchanged (a duplicate is appended as well); with n = 5 it
\* raises the limit error and changes neither the lists nor the event.
C5_AddReminder ==
    [][(nAdds' # nAdds /\ last'.op = "add_reminder") =>
        LET ref == events[last'.ev].reminders
            n == Len(heap[ref])
        IN  /\ (last'.exc = "None") <=> (n <= 4)
            /\ n <= 4 =>
                /\ Len(heap'[ref]) = n + 1
                /\ heap'[ref][n + 1] = last'.arg
                /\ \A k \in 1..n : heap'[ref][k] = heap[ref][k]
            /\ n = 5 =>
                /\ last'.exc = "ValueError"
                /\ heap' = heap
                /\ events' = events]_vars

\* C5 witness: a fifth reminder, equal to an earlier one, was just appended
C5_Witness ==
    /\ last.op = "add_reminder"
    /\ last.exc = "None"
    /\ Len(RemindersOf(last.ev)) = 5
    /\ RemindersOf(last.ev)[5] = RemindersOf(last.ev)[3]

\* event i was constructed from the caller's list id, as reminders or attachments
ConstructedFrom(i, id) ==
    events[i].reminders = id \/ events[i].attachments = id

\* C10: when two events were constructed from the same list of the caller, an
\* add_* call on one of them changes neither the reminders nor the attachments
\* of the other, nor the caller's list.
C10_EventsIsolated ==
    [][(nAdds' # nAdds) =>
        \A j \in 1..Len(events) : \A id \in DOMAIN callerLists :
            (j # last'.ev /\ ConstructedFrom(last'.ev, id) /\ ConstructedFrom(j, id))
            => /\ heap'[events[j].reminders] = heap[events[j].reminders]
               /\ heap'[events[j].attachments] = heap[events[j].attachments]
               /\ heap'[id] = heap[id]]_vars

(***************************************************************************)
(* Attendees: construction and add_attendee.                               *)
(***************************************************************************)
\* an attendee record with fields set, and two email strings
AttendeeBob ==
    [Attendee("bob@example.com") EXCEPT !.display_name = "Bob", !.optional = TRUE]

Emails == {Str("ann@example.com"), Str("cat@example.com")}

AttendeeListContents ==
    {<<>>, <<Str("ann@example.com"), AttendeeBob>>}

\* the calls of Event(...) that differ in the attendees argument
AttendeeArgs ==
    {[DefaultArgs EXCEPT !.attendees = a] :
        a \in {None, AttendeeBob} \cup Emails \cup CallerRefs("attendees")}

\* Event.add_attendee on the list object ref
add_attendee(ref, attendee, h) ==
    [h EXCEPT ![ref] = Append(@, _ensure_attendee_from_email(attendee))]

\* events[i].add_attendee(attendee)
AddAttendee(i, attendee) ==
    /\ nAdds < MaxAdds
    /\ heap' = add_attendee(events[i].attendees, attendee, heap)
    /\ last' = [op |-> "add_attendee", ev |-> i, arg |-> attendee, exc |-> "None"]
    /\ nAdds' = nAdds + 1
    /\ UNCHANGED <<callerLists, events, classes>>

NextAttendees ==
    \/ \E xs \in AttendeeListContents : CallerMakeList("attendees", xs)
    \/ \E args \in AttendeeArgs : Construct(args)
    \/ \E i \in 1..Len(events) : \E x \in Emails \cup {AttendeeBob} : AddAttendee(i, x)

SpecAttendees == Init /\ [][NextAttendees]_vars

ListFields == {"attendees", "attachments", "reminders", "recurrence"}

\* the record made from an email alone: the email, every other field default
IsMinimalAttendee(x, email) ==
    /\ x.kind = "Attendee"
    /\ x.email = email
    /\ x.display_name = "None"
    /\ x.response_status = "None"
    /\ ~x.optional /\ ~x.is_organizer /\ ~x.is_self

\* C8: add_attendee(x) appends one attendee record to the attendees of the
\* event, keeps the earlier attendees in order and changes nothing else (no
\* field of an event, no other list); for an email string the record has that
\* email and default fields, a record is appended as it is.  After any
\* construction and add_attendee calls no attendee is a raw string.
C8_AddAttendee ==
    [][/\ (nAdds' # nAdds /\ last'.op = "add_attendee") =>
            LET i == last'.ev
                ref == events[i].attendees
                n == Len(heap[ref])
                x == last'.arg
            IN  /\ Len(heap'[ref]) = n + 1
                /\ \A k \in 1..n : heap'[ref][k] = heap[ref][k]
                /\ IF x.kind = "str"
                   THEN IsMinimalAttendee(heap'[ref][n + 1], x.s)
                   ELSE heap'[ref][n + 1] = x
                /\ events' = events
                /\ DOMAIN heap' = DOMAIN heap
                /\ \A id \in DOMAIN heap \ {ref} : heap'[id] = heap[id]
                /\ ref \notin DOMAIN callerLists
                /\ \A j \in 1..Len(events) : \A f \in ListFields :
                       (j # i \/ f # "attendees") => events[j][f] # ref
       /\ \A i \in 1..Len(events') :
              \A k \in 1..Len(heap'[events'[i].attendees]) :
                  heap'[events'[i].attendees][k].kind = "Attendee"]_vars

\* C8 witness: an email was just added to an event constructed from a list that
\* held an email string, and the caller's list still holds the string
C8_Witness ==
    /\ last.op = "add_attendee"
    /\ last.arg.kind = "str"
    /\ Len(heap[events[last.ev].attendees]) = 3
    /\ heap[events[last.ev].attendees][3].email = last.arg.s
    /\ CallerList \in DOMAIN heap
    /\ heap[CallerList][1].kind = "str"

(***************************************************************************)
(* Start and end: construction and the ordering of events.                 *)
(***************************************************************************)
\* a date at midnight, localised, that ignores the zone of the event
insure_datetime_NoZone(d, timezone) ==
    IF d.kind = "date"
    THEN insure_localisation(Datetime(d.day * HoursPerDay, "naive"), "UTC")
    ELSE d

\* Event.__lt__.insure_datetime: type(d) == date
insure_datetime(d, timezone) ==
    IF d.kind = "date"
    THEN insure_localisation(Datetime(d.day * HoursPerDay, "naive"), timezone)
    ELSE d

\* Event.__lt__
Event__lt__(self, other) ==
    TupleLt(<<insure_datetime(self.start, self.timezone),
              insure_datetime(self.end, self.timezone)>>,
            <<insure_datetime(other.start, other.timezone),
              insure_datetime(other.end, other.timezone)>>)

\* the starts the caller passes: dates, date literals, naive and aware datetimes
StartValues ==
    {Date(d) : d \in 0..MaxDay} \cup {BeautifulDate(d) : d \in 0..MaxDay}
    \cup {Datetime(d * HoursPerDay + h, z) :
              d \in 0..MaxDay, h \in {0, 10}, z \in {"naive", "Europe/Zurich"}}

\* the ends the caller passes, all after every start; None: end omitted
EndValues ==
    {None, Date(MaxDay + 1), BeautifulDate(MaxDay + 2),
     Datetime((MaxDay + 1) * HoursPerDay, "naive"),
     Datetime((MaxDay + 1) * HoursPerDay, "UTC")}

\* the calls of Event(...) that differ in start, end and timezone
TemporalArgs ==
    {[DefaultArgs EXCEPT !.start = st, !.end = en, !.timezone = z] :
        st \in StartValues, en \in EndValues, z \in Zones}

\* events[i] < events[j]
CompareLt(i, j) ==
    /\ last' = [op |-> "__lt__", a |-> i, b |-> j,
                result |-> Event__lt__(events[i], events[j])]
    /\ UNCHANGED <<heap, callerLists, events, nAdds, classes>>

NextTemporal ==
    \/ \E args \in TemporalArgs : Construct(args)
    \/ \E i \in 1..Len(events) : \E j \in 1..Len(events) : CompareLt(i, j)

SpecTemporal == Init /\ [][NextTemporal]_vars

\* C3: construction raises the type-mismatch error exactly when end is given
\* and one of start and end is a datetime and the other a date; every event
\* constructed has a date start and a date end, or two zone-aware datetimes.
C3_SameKind ==
    /\ last.op = "Event" =>
           ((last.exc = "TypeError") <=>
               /\ last.args.end # None
               /\ (last.args.start.kind = "datetime") # (last.args.end.kind = "datetime"))
    /\ \A i \in 1..Len(events) :
           \/ events[i].start.kind = "date" /\ events[i].end.kind = "date"
           \/ /\ events[i].start.kind = "datetime" /\ events[i].end.kind = "datetime"
              /\ events[i].start.tz \in Zones /\ events[i].end.tz \in Zones

\* C3 witness: a date start with a datetime end was just refused
C3_Witness ==
    /\ last.op = "Event"
    /\ last.exc = "TypeError"
    /\ last.args.start.kind = "BeautifulDate"
    /\ last.args.end.kind = "datetime"

\* C4: with end omitted the constructor returns an event whose start is the day
\* or the instant given and whose end is one day after a date start, one hour
\* after a datetime start.
C4_DefaultEnd ==
    (last.op = "Event" /\ last.args.end = None) =>
        /\ last.exc = "None"
        /\ LET ev == events[last.ev]
               st == last.args.start
           IN  IF st.kind \in {"date", "BeautifulDate"}
               THEN /\ ev.start = Date(st.day)
                    /\ ev.end = Date(st.day + 1)
               ELSE /\ ev.start.kind = "datetime" /\ ev.end.kind = "datetime"
                    /\ ev.start.wall = st.wall
                    /\ ev.start.tz = (IF st.tz = "naive" THEN last.args.timezone
                                      ELSE st.tz)
                    /\ ev.end.wall = ev.start.wall + 1
                    /\ ev.end.tz = ev.start.tz
                    /\ Utc(ev.end) = Utc(ev.start) + 1

\* C4 witness: a naive datetime start, end omitted, in a zone that is not UTC
C4_Witness ==
    /\ last.op = "Event"
    /\ last.exc = "None"
    /\ last.args.end = None
    /\ last.args.start.kind = "datetime"
    /\ last.args.start.tz = "naive"
    /\ last.args.timezone = "Europe/Zurich"

\* the instant, in hours of UTC, that a stored start or end stands for in the
\* ordering: a date is the midnight of that day in the zone of its event
Instant(x, timezone) ==
    IF x.kind = "date" THEN x.day * HoursPerDay - UTCOffset(timezone)
    ELSE x.wall - UTCOffset(x.tz)

LexLess(a, b) ==
    LET sa == Instant(a.start, a.timezone)
        ea == Instant(a.end, a.timezone)
        sb == Instant(b.start, b.timezone)
        eb == Instant(b.end, b.timezone)
    IN  sa < sb \/ (sa = sb /\ ea < eb)

\* C7: a < b holds exactly when (start, end) of a is lexicographically smaller
\* than (start, end) of b, each date taken as the midnight of that day in the
\* zone of its own event.
C7_Ordering ==
    last.op = "__lt__" =>
        last.result = (IF LexLess(events[last.a], events[last.b])
                       THEN "True" ELSE "False")

\* C7 witness: an all-day event on day D sorts before a timed event at 10:00 of
\* day D in the same zone
C7_Witness ==
    /\ last.op = "__lt__"
    /\ last.result = "True"
    /\ events[last.a].start.kind = "date"
    /\ events[last.b].start.kind = "datetime"
    /\ events[last.a].timezone = events[last.b].start.tz
    /\ events[last.b].start.wall = events[last.a].start.day * HoursPerDay + 10

(***************************************************************************)
(* Equality of events.                                                     *)
(***************************************************************************)
\* Event.__eq__ (isinstance(other, Event) holds: both are events)
Event__eq__(self, other, h) ==
    /\ PyEq(self.start, other.start)
    /\ PyEq(self.end, other.end)
    /\ PyEq(self.event_id, other.event_id)
    /\ PyEq(self.summary, other.summary)
    /\ PyEq(self.description, other.description)
    /\ PyEq(self.location, other.location)
    /\ h[self.recurrence] = h[other.recurrence]
    /\ PyEq(self.color_id, other.color_id)
    /\ PyEq(self.visibility, other.visibility)
    /\ h[self.attendees] = h[other.attendees]
    /\ h[self.attachments] = h[other.attachments]
    /\ h[self.reminders] = h[other.reminders]
    /\ self.default_reminders = other.default_reminders
    /\ self.other = other.other

\* for every parameter of Event(...) a value that is not its default
OtherArgs ==
    [summary |-> Str("Standup"), start |-> Date(1), end |-> Date(3),
     timezone |-> "Europe/Zurich", event_id |-> Str("abcde"),
     description |-> Str("weekly"), location |-> Str("Zurich"),
     recurrence |-> Str("RRULE:FREQ=DAILY"), color |-> Str("1"),
     visibility |-> Str("private"), attendees |-> Str("ann@example.com"),
     attachments |-> TheAttachment,
     conference_solution |-> [kind |-> "ConferenceSolution", conference_id |-> "xyz"],
     reminders |-> PopupReminder(10), default_reminders |-> TRUE,
     minutes_before_popup_reminder |-> PyInt(10),
     minutes_before_email_reminder |-> PyInt(10),
     updated |-> Datetime(5, "UTC"),
     other |-> {<<"transparency", "opaque">>}]

Params == DOMAIN DefaultArgs

\* the sets of at most k parameters
RECURSIVE ParamSets(_)
ParamSets(k) ==
    IF k = 0 THEN {{}}
    ELSE LET P == ParamSets(k - 1)
         IN  P \cup {T \cup {f} : T \in P, f \in Params}

\* the calls of Event(...) with at most MaxNonDefault arguments changed
EqArgs ==
    {[f \in Params |-> IF f \in S THEN OtherArgs[f] ELSE DefaultArgs[f]] :
        S \in ParamSets(MaxNonDefault)}

\* events[i] == events[j]
CompareEq(i, j) ==
    /\ last' = [op |-> "__eq__", a |-> i, b |-> j,
                result |-> Event__eq__(events[i], events[j], heap)]
    /\ UNCHANGED <<heap, callerLists, events, nAdds, classes>>

NextEq ==
    \/ \E args \in EqArgs : Construct(args)
    \/ \E i \in 1..Len(events) : \E j \in 1..Len(events) : CompareEq(i, j)

SpecEq == Init /\ [][NextEq]_vars

\* two events agree on every field but updated
AgreeButUpdated(a, b) ==
    /\ PyEq(a.start, b.start)
    /\ PyEq(a.end, b.end)
    /\ a.timezone = b.timezone
    /\ a.event_id = b.event_id
    /\ a.summary = b.summary
    /\ a.description = b.description
    /\ a.location = b.location
    /\ heap[a.recurrence] = heap[b.recurrence]
    /\ a.color_id = b.color_id
    /\ a.visibility = b.visibility
    /\ heap[a.attendees] = heap[b.attendees]
    /\ heap[a.attachments] = heap[b.attachments]
    /\ a.conference_solution = b.conference_solution
    /\ heap[a.reminders] = heap[b.reminders]
    /\ a.default_reminders = b.default_reminders
    /\ a.other = b.other

\* C6: two events are equal if and only if they agree on start, end, timezone,
\* event_id, summary, description, location, recurrence, color_id, visibility,
\* attendees, attachments, conference_solution, reminders, default_reminders
\* and other; updated is not compared.
C6_EqualityAllButUpdated ==
    last.op = "__eq__" =>
        (last.result <=> AgreeButUpdated(events[last.a], events[last.b]))

(***************************************************************************)
(* Serializers: a subclass of BaseSerializer is checked when it is defined.*)
(***************************************************************************)
LowerChar(c) ==
    CASE c = "A" -> "a" [] c = "P" -> "p" [] c = "E" -> "e" [] OTHER -> c

\* str.lower()
Lower(name) == [i \in 1..Len(name) |-> LowerChar(name[i])]

Type(name) == [kind |-> "type", name |-> name]

\* the entity types and the names of the constructor's parameter
TypeNames ==
    {<<"A", "p", "p", "l", "e">>, <<"P", "e", "a", "c", "h">>,
     <<"E", "v", "e", "n", "t">>}

ParamNames == TypeNames \cup {Lower(n) : n \in TypeNames}

\* class XSerializer(BaseSerializer): type_ = ...; def __init__(self, <param>)
ClassDefinitions ==
    {[type_ |-> t, param |-> q] :
        t \in {None} \cup {Type(n) : n \in TypeNames}, q \in ParamNames}

\* a check of type_ alone
__init_subclass__TypeOnly(cls) ==
    IF cls.type_ = None THEN "AssertionError" ELSE "None"

\* BaseSerializer.__init_subclass__: the exception raised, "None" for none
__init_subclass__(cls) ==
    IF cls.type_ = None THEN "AssertionError"
    ELSE IF cls.param # Lower(cls.type_.name) THEN "AssertionError"
    ELSE "None"

\* the class statement: the class exists when __init_subclass__ returns
DefineSerializer(cls) ==
    /\ classes' = IF __init_subclass__(cls) = "None" THEN classes \cup {cls} ELSE classes
    /\ last' = [op |-> "class", cls |-> cls, exc |-> __init_subclass__(cls)]
    /\ UNCHANGED <<heap, callerLists, events, nAdds>>

NextSerializer == \E cls \in ClassDefinitions : DefineSerializer(cls)

SpecSerializer == Init /\ [][NextSerializer]_vars

\* q is n in lower case, letter by letter
IsLowerCaseOf(q, n) ==
    /\ Len(q) = Len(n)
    /\ \A i \in 1..Len(n) :
           <<n[i], q[i]>> \in {<<"A", "a">>, <<"P", "p">>, <<"E", "e">>}
           \/ (n[i] = q[i] /\ n[i] \notin {"A", "P", "E"})

\* C9: the definition of a serializer subclass succeeds if and only if it
\* declares type_ and names the constructor's parameter after the type in
\* lower case; otherwise it raises AssertionError and no class is defined.
C9_SubclassCheck ==
    /\ last.op = "class" =>
           /\ last.exc \in {"None", "AssertionError"}
           /\ (last.exc = "None") <=>
                  /\ last.cls.type_ # None
                  /\ IsLowerCaseOf(last.cls.param, last.cls.type_.name)
    /\ \A cls \in classes :
           cls.type_ # None /\ IsLowerCaseOf(cls.param, cls.type_.name)

\* C9 witness: type_ = Apple with the parameter peach was just refused, after
\* the definition with the parameter apple was accepted
C9_Witness ==
    /\ last.op = "class"
    /\ last.exc = "AssertionError"
    /\ last.cls = [type_ |-> Type(<<"A", "p", "p", "l", "e">>),
                   param |-> <<"p", "e", "a", "c", "h">>]
    /\ [type_ |-> Type(<<"A", "p", "p", "l", "e">>),
        param |-> <<"a", "p", "p", "l", "e">>] \in classes

====
